---- MODULE Spec2Model ----
(***************************************************************************)
(* Statistical arbitrage engine (src/src/stat_arb_engine.py).              *)
(*                                                                         *)
(* Numbers.  The engine works on Python floats.  Every float the model     *)
(* touches is a multiple of 0.1, so a z-score is held as an integer number *)
(* of tenths (2.3 is 23) and a strength as an integer number of hundredths *)
(* (1.15 is 115).  The thresholds 2.0, 0.5 and 2.5 are exact in binary     *)
(* floating point, so every comparison of the code is decided the same way *)
(* on the integers.  NaN is a value of its own; as in IEEE arithmetic every*)
(* ordered comparison with NaN is false.                                   *)
(***************************************************************************)
EXTENDS Integers, Sequences, FiniteSets

VARIABLES
    \* generate_trading_signals
    z_score,           \* the z-score series handed to generate_trading_signals
    signal,            \* signals['signal'] column
    position,          \* signals['position'] column
    current_position,  \* the loop's current_position
    i,                 \* the loop's index (0-based, as in the code)
    entry,             \* signals['entry'] column (set when the loop is over)
    exit,              \* signals['exit'] column
    pc,                \* where the running function stands
    \* analyze_pair tail
    current_z_score,   \* analyze_pair's current_z_score
    current_signal,    \* the record _get_current_signal returned
    \* test_cointegration
    price_series_1,    \* the days on which the first series has a price
    price_series_2,    \* the days on which the second series has a price
    coint_called,      \* whether statsmodels' coint has been called
    coint_result,      \* the dictionary test_cointegration returned
    \* screen_all_pairs
    pair_outcomes,     \* what analyze_pair does for each configured pair
    next_pair,         \* the for loop's place in DEFAULT_PAIRS (1-based)
    analysed,          \* the pairs analyze_pair was called for, in call order
    viable_pairs,      \* the list viable_pairs
    \* calculate_position_size
    price1,            \* price of stock 1, in rupees
    price2,            \* price of stock 2, in rupees
    hedge_ratio,       \* the hedge ratio, in tenths
    available_capital, \* the capital budget in rupees, or None
    sizing,            \* the dictionary calculate_position_size returned
    \* calculate_total_charges
    quantity,          \* number of shares
    buy_price,         \* purchase price per share, in paise
    sell_price,        \* selling price per share, in paise
    trade_type,        \* "delivery" or "intraday"
    exchange,          \* "NSE" or "BSE"
    include_dp_charges,
    charges,           \* the dictionary calculate_total_charges returned
    \* is_trade_profitable
    min_profit_percent, \* in thousandths of a percent
    profitable,        \* the tuple is_trade_profitable returned
    \* validate_trade_profitability
    quantity1,
    quantity2,
    entry_price1,      \* prices in paise
    entry_price2,
    exit_price1,
    exit_price2,
    trade_direction,   \* 1 for long pair, -1 for short pair
    validation,        \* the dictionary validate_trade_profitability returned
    \* get_minimum_profitable_price
    iterations,        \* passes of the for loop begun
    minimum_price,     \* the price returned
    \* StatisticalArbitrageEngine.__init__ and the calls made on the engine
    trading_config,    \* the values of the TradingConfig attributes
    operations_run,    \* the engine methods that have run
    \* StatisticalArbitrageDashboard and its threads
    dashboard_viable_pairs, \* self.viable_pairs of the dashboard: the list
                       \* object the attribute refers to now
    is_monitoring,
    screening_thread,  \* is self.screening_thread there and alive
    workers,           \* the monitoring_worker threads, by thread
    log_queue,         \* the number of messages in self.log_queue
    display_pending    \* update_pairs_display and check_for_signals are
                       \* scheduled with root.after and have not run

signalVars == <<z_score, signal, position, current_position, i, entry, exit>>
currentVars == <<current_z_score, current_signal>>
cointVars == <<price_series_1, price_series_2, coint_called, coint_result>>
screenVars == <<pair_outcomes, next_pair, analysed, viable_pairs>>
sizingVars == <<price1, price2, hedge_ratio, available_capital, sizing>>
feeArgs ==
    <<quantity, buy_price, sell_price, trade_type, exchange, include_dp_charges>>
feeVars == <<feeArgs, charges>>
validationArgs ==
    <<quantity1, quantity2, entry_price1, entry_price2, exit_price1,
      exit_price2, trade_direction>>
profitVars == <<min_profit_percent, profitable, validationArgs, validation>>
searchVars == <<iterations, minimum_price>>
startupVars == <<trading_config, operations_run>>
\* the groups added after the numerical functions
dashboardVars ==
    <<dashboard_viable_pairs, is_monitoring, screening_thread, workers,
      log_queue, display_pending>>
otherVars == <<startupVars, dashboardVars>>
vars ==
    <<pc, signalVars, currentVars, cointVars, screenVars, sizingVars, feeVars,
      profitVars, searchVars, otherVars>>

\* what the actions of one function leave alone: the state of the others
notSignals ==
    <<cointVars, screenVars, sizingVars, feeVars, profitVars, searchVars,
      otherVars>>
notCurrent ==
    <<signalVars, cointVars, screenVars, sizingVars, feeVars, profitVars,
      searchVars, otherVars>>
notCoint ==
    <<signalVars, currentVars, screenVars, sizingVars, feeVars, profitVars,
      searchVars, otherVars>>
notScreen ==
    <<signalVars, currentVars, cointVars, sizingVars, feeVars, profitVars,
      searchVars, otherVars>>
notSizing ==
    <<signalVars, currentVars, cointVars, screenVars, feeVars, profitVars,
      searchVars, otherVars>>
notFee ==
    <<signalVars, currentVars, cointVars, screenVars, sizingVars, profitVars,
      searchVars, otherVars>>
notFeeOrProfit ==
    <<signalVars, currentVars, cointVars, screenVars, sizingVars,
      searchVars, otherVars>>
notFeeOrSearch ==
    <<signalVars, currentVars, cointVars, screenVars, sizingVars, validationArgs,
      validation, profitable, otherVars>>
numericalVars ==
    <<signalVars, currentVars, cointVars, screenVars, sizingVars, feeVars,
      profitVars, searchVars>>

----------------------------------------------------------------------------
(* Configuration: config/config.py, class TradingConfig                    *)

Z_SCORE_ENTRY == 20          \* 2.0, in tenths
Z_SCORE_EXIT == 5            \* 0.5, in tenths
STOP_LOSS_MULTIPLIER == 25   \* 2.5, in tenths

----------------------------------------------------------------------------
(* Floats                                                                  *)

NaN == 9999                  \* the undefined z-score (float('nan'))

isna(x) == x = NaN

\* abs() of a float: abs(nan) is nan
abs(x) == IF isna(x) THEN NaN ELSE IF x < 0 THEN -x ELSE x

\* a > b and a < b on floats: false as soon as one side is NaN
gt(a, b) == ~isna(a) /\ ~isna(b) /\ a > b
lt(a, b) == ~isna(a) /\ ~isna(b) /\ a < b

\* Python's min(a, b) on two defined numbers
min(a, b) == IF b < a THEN b ELSE a

----------------------------------------------------------------------------
(* Bounds of the model                                                     *)

MaxLen == 4                  \* longest z-score series explored

\* z-scores a series is drawn from: undefined, each threshold exactly, and a
\* value in every band the thresholds cut, on both sides of zero
ZValues == {NaN, -30, -20, -3, 1, 3, 5, 10, 20, 23, 25, 30}

SeqsUpTo(S, n) == UNION {[1..k -> S] : k \in 0..n}

----------------------------------------------------------------------------
(* generate_trading_signals                                                *)

FirstIndex == 1              \* for i in range(1, len(signals))

\* "Entry signals": the branch taken when current_position == 0
EntryBranch(z) ==
    IF gt(z, Z_SCORE_ENTRY) THEN [signal |-> -1, position |-> -1]
    ELSE IF lt(z, -Z_SCORE_ENTRY) THEN [signal |-> 1, position |-> 1]
    ELSE [signal |-> 0, position |-> 0]

\* ExitBranch followed by the entry check in the same pass (if for elif)
ExitBranch_Reenter(cur, z) ==
    IF lt(abs(z), Z_SCORE_EXIT) \/ gt(abs(z), STOP_LOSS_MULTIPLIER)
    THEN IF EntryBranch(z).position # 0
         THEN EntryBranch(z)
         ELSE [signal |-> -cur, position |-> 0]
    ELSE [signal |-> 0, position |-> cur]

\* ExitBranch without the stop-loss test
ExitBranch_NoStopLoss(cur, z) ==
    IF lt(abs(z), Z_SCORE_EXIT) THEN [signal |-> -cur, position |-> 0]
    ELSE [signal |-> 0, position |-> cur]

\* ExitBranch whose mean-reversion exit emits the held sign, not its opposite
ExitBranch_SameSign(cur, z) ==
    IF lt(abs(z), Z_SCORE_EXIT) THEN [signal |-> cur, position |-> 0]
    ELSE IF gt(abs(z), STOP_LOSS_MULTIPLIER) THEN [signal |-> -cur, position |-> 0]
    ELSE [signal |-> 0, position |-> cur]

\* ExitBranch whose stop loss closes the position without writing a signal
ExitBranch_SilentStopLoss(cur, z) ==
    IF lt(abs(z), Z_SCORE_EXIT) THEN [signal |-> -cur, position |-> 0]
    ELSE IF gt(abs(z), STOP_LOSS_MULTIPLIER) THEN [signal |-> 0, position |-> 0]
    ELSE [signal |-> 0, position |-> cur]

\* "Exit signals": the branch taken when current_position != 0
ExitBranch(cur, z) ==
    IF lt(abs(z), Z_SCORE_EXIT) THEN [signal |-> -cur, position |-> 0]
    ELSE IF gt(abs(z), STOP_LOSS_MULTIPLIER) THEN [signal |-> -cur, position |-> 0]
    ELSE [signal |-> 0, position |-> cur]

\* LoopBody treating an undefined z-score as "no position"
LoopBody_NaNFlat(cur, z) ==
    IF isna(z) THEN [signal |-> 0, position |-> 0]
    ELSE IF cur = 0 THEN EntryBranch(z)
    ELSE ExitBranch(cur, z)

\* One pass of the loop body on z_current with the position held before it:
\* the value written to the signal column and the new current_position
LoopBody(cur, z) ==
    IF isna(z) THEN [signal |-> 0, position |-> cur]
    ELSE IF cur = 0 THEN EntryBranch(z)
    ELSE ExitBranch(cur, z)

\* Series.shift(1): the previous row's value, NaN in the first row
shift1(col, t) == IF t = 1 THEN NaN ELSE col[t - 1]

\* signals['entry'] = (signal != 0) & (signal != signal.shift(1))
EntryColumn(sig) ==
    [t \in 1..Len(sig) |-> sig[t] # 0 /\ sig[t] # shift1(sig, t)]

\* signals['exit'] = (signal != 0) & (position.shift(1) != 0)
ExitColumn(sig, pos) ==
    [t \in 1..Len(sig) |-> sig[t] # 0 /\ shift1(pos, t) # 0]

----------------------------------------------------------------------------
(* _get_current_signal                                                     *)

MaxStrength == 300           \* the cap 3.0, in hundredths

\* EntryStrength without the cap
EntryStrength_NoCap(z) == (abs(z) * 100) \div Z_SCORE_ENTRY

\* min(abs(z_score) / Z_SCORE_ENTRY, 3.0), in hundredths
EntryStrength(z) == min((abs(z) * 100) \div Z_SCORE_ENTRY, MaxStrength)

\* the dictionary returned for an undefined z-score
NoDataSignal ==
    [signal |-> "NO_DATA", strength |-> 0,
     description |-> <<"No data available">>]

ShortPairSignal(z) ==
    [signal |-> "SHORT_PAIR", strength |-> EntryStrength(z),
     description |-> <<"Short pair (z-score: ", z, ")">>,
     action |-> "Sell stock2, Buy stock1"]

LongPairSignal(z) ==
    [signal |-> "LONG_PAIR", strength |-> EntryStrength(z),
     description |-> <<"Long pair (z-score: ", z, ")">>,
     action |-> "Buy stock2, Sell stock1"]

\* strength 1.0, in hundredths
ClosePositionSignal(z) ==
    [signal |-> "CLOSE_POSITION", strength |-> 100,
     description |-> <<"Close position (z-score: ", z, ")">>,
     action |-> "Mean reversion detected"]

HoldSignal(z) ==
    [signal |-> "HOLD", strength |-> 0,
     description |-> <<"Hold current position (z-score: ", z, ")">>,
     action |-> "No action required"]

\* get_current_signal with the entry thresholds included
get_current_signal_Inclusive(z) ==
    IF isna(z) THEN NoDataSignal
    ELSE IF z >= Z_SCORE_ENTRY THEN ShortPairSignal(z)
    ELSE IF z <= -Z_SCORE_ENTRY THEN LongPairSignal(z)
    ELSE IF lt(abs(z), Z_SCORE_EXIT) THEN ClosePositionSignal(z)
    ELSE HoldSignal(z)

get_current_signal(z) ==
    IF isna(z) THEN NoDataSignal
    ELSE IF gt(z, Z_SCORE_ENTRY) THEN ShortPairSignal(z)
    ELSE IF lt(z, -Z_SCORE_ENTRY) THEN LongPairSignal(z)
    ELSE IF lt(abs(z), Z_SCORE_EXIT) THEN ClosePositionSignal(z)
    ELSE HoldSignal(z)

\* the value current_signal holds before _get_current_signal has returned
NoSignal == [signal |-> "NONE"]

----------------------------------------------------------------------------
(* test_cointegration                                                      *)
(*                                                                         *)
(* A price series is the set of days on which it has a price.  A p-value is*)
(* an integer number of thousandths (0.05 is 50).  The Engle-Granger test  *)
(* and the regression are library calls: what they return, or that they    *)
(* raise, is an input of the model.                                        *)

MAX_COINTEGRATION_PVALUE == 50   \* 0.05, in thousandths
MIN_DATA_POINTS == 30            \* if len(aligned_data) < 30

\* DataFrame({'stock1': s1, 'stock2': s2}).dropna(): the days both series have
aligned(s1, s2) == s1 \cap s2

\* is_cointegrated = p_value < MAX_COINTEGRATION_PVALUE, with <= for <
is_cointegrated_Inclusive(p) == ~isna(p) /\ p <= MAX_COINTEGRATION_PVALUE

\* is_cointegrated = p_value < MAX_COINTEGRATION_PVALUE
is_cointegrated(p) == lt(p, MAX_COINTEGRATION_PVALUE)

\* len(aligned_data) < 30, with the test one observation late
insufficient_data_OffByOne(s1, s2) ==
    Cardinality(aligned(s1, s2)) < MIN_DATA_POINTS - 1

\* len(aligned_data) < 30
insufficient_data(s1, s2) == Cardinality(aligned(s1, s2)) < MIN_DATA_POINTS

\* the dictionary returned when too few observations are aligned
InsufficientResult ==
    [cointegrated |-> FALSE, p_value |-> 1000, critical_value |-> "None",
     hedge_ratio |-> "None", error |-> "Insufficient data"]

\* the dictionary returned when the test and the regression went through
NormalResult(s1, s2, test, fit) ==
    [cointegrated |-> is_cointegrated(test.p_value),
     p_value |-> test.p_value,
     critical_value |-> test.critical_value,
     hedge_ratio |-> fit.hedge_ratio,
     intercept |-> fit.intercept,
     r_squared |-> fit.r_squared,
     data_points |-> Cardinality(aligned(s1, s2))]

\* the dictionary returned by the except clause
ErrorResult == [cointegrated |-> FALSE, p_value |-> 1000, error |-> "str(e)"]

\* the value coint_result holds before test_cointegration has returned
NoResult == [error |-> "not returned"]

----------------------------------------------------------------------------
(* screen_all_pairs                                                        *)
(*                                                                         *)
(* A configured pair is its place in DEFAULT_PAIRS.  What analyze_pair     *)
(* does for a pair (data fetch, test, signals) is an input of the model:   *)
(* it returns one of its three dictionaries, or an exception leaves it.    *)

\* dict.get(key, default)
get(d, key, default) == IF key \in DOMAIN d THEN d[key] ELSE default

\* analyze_pair's full result, returned when the pair is cointegrated
ViableAnalysis(k, p) ==
    [pair |-> k, cointegrated |-> TRUE,
     cointegration_details |-> [cointegrated |-> TRUE, p_value |-> p]]

\* analyze_pair's result when test_cointegration says not cointegrated
RejectedAnalysis(k) ==
    [pair |-> k, cointegrated |-> FALSE, reason |-> "P-value > 0.05"]

\* analyze_pair's result when a price series is empty, or when its except
\* clause caught an exception
FailedAnalysis == [error |-> "str(e)"]

\* the dictionary analyze_pair returns for pair k under outcome o
analyze_pair(k, o) ==
    IF o.kind = "viable" THEN ViableAnalysis(k, o.p_value)
    ELSE IF o.kind = "rejected" THEN RejectedAnalysis(k)
    ELSE FailedAnalysis

\* the body of the for loop without its try/except: an exception that leaves
\* analyze_pair leaves screen_all_pairs
screen_pair_NoTry(viable, k, o) ==
    IF o.kind = "raise" THEN [viable_pairs |-> viable, raised |-> TRUE]
    ELSE IF get(analyze_pair(k, o), "cointegrated", FALSE)
    THEN [viable_pairs |-> Append(viable, analyze_pair(k, o)), raised |-> FALSE]
    ELSE [viable_pairs |-> viable, raised |-> FALSE]

\* the body of the for loop for pair k: the list afterwards, and whether an
\* exception left the try/except
screen_pair(viable, k, o) ==
    IF o.kind = "raise" THEN [viable_pairs |-> viable, raised |-> FALSE]
    ELSE IF get(analyze_pair(k, o), "cointegrated", FALSE)
    THEN [viable_pairs |-> Append(viable, analyze_pair(k, o)), raised |-> FALSE]
    ELSE [viable_pairs |-> viable, raised |-> FALSE]

\* the sort key: x.get('cointegration_details', {}).get('p_value', 1.0)
sort_key(x) == get(get(x, "cointegration_details", <<>>), "p_value", 1000)

\* x put into the sorted list l behind every element whose key is not larger
RECURSIVE insert_sorted(_, _)
insert_sorted(l, x) ==
    IF l = <<>> THEN <<x>>
    ELSE IF sort_key(x) < sort_key(l[1]) THEN <<x>> \o l
    ELSE <<l[1]>> \o insert_sorted(Tail(l), x)

RECURSIVE stable_sort(_)
stable_sort(l) ==
    IF l = <<>> THEN <<>>
    ELSE insert_sorted(stable_sort(SubSeq(l, 1, Len(l) - 1)), l[Len(l)])

\* viable_pairs.sort(...) left out: the list is returned as collected
sort_viable_pairs_Unsorted(l) == l

\* viable_pairs.sort(key=...): Python's sort, ascending and stable
sort_viable_pairs(l) == stable_sort(l)

----------------------------------------------------------------------------
(* calculate_position_size                                                 *)
(*                                                                         *)
(* Prices and capital are whole rupees, the hedge ratio is in tenths, and  *)
(* MAX_POSITION_SIZE is in hundredths, so that every quotient the code     *)
(* truncates with int() is a quotient of two integers here.                *)

MAX_POSITION_SIZE == 2       \* 0.02, in hundredths
CAPITAL_PER_PAIR == 100000   \* rupees
None == -1                   \* available_capital left at its default None

max(a, b) == IF b > a THEN b ELSE a

\* the capital the sizes are computed from
capital_or_default(capital) ==
    IF capital = None THEN CAPITAL_PER_PAIR ELSE capital

\* int(target_exposure / (abs(hedge_ratio) * price1 + price2)), with
\* target_exposure = capital * MAX_POSITION_SIZE; both sides times 1000
base_quantity(p1, p2, h, capital) ==
    (capital * MAX_POSITION_SIZE * 10) \div (100 * (abs(h) * p1 + 10 * p2))

\* int(abs(hedge_ratio) * quantity2)
hedged_quantity(h, q2) == (abs(h) * q2) \div 10

\* the two quantities with line 444 before line 440: quantity1 is computed
\* from the quantity2 that was already raised to 1
quantities_RaisedFirst(p1, p2, h, capital) ==
    LET q2 == max(base_quantity(p1, p2, h, capital), 1)
    IN [quantity1 |-> max(hedged_quantity(h, q2), 1), quantity2 |-> q2]

\* quantity1 and quantity2 as returned
quantities(p1, p2, h, capital) ==
    LET q2 == base_quantity(p1, p2, h, capital)
        q1 == hedged_quantity(h, q2)
    IN [quantity1 |-> max(q1, 1), quantity2 |-> max(q2, 1)]

\* the dictionary returned; capital_utilization is kept in whole percent
calculate_position_size(p1, p2, h, capital) ==
    LET c == capital_or_default(capital)
        q == quantities(p1, p2, h, c)
        cost1 == q.quantity1 * p1
        cost2 == q.quantity2 * p2
    IN [quantity1 |-> q.quantity1,
        quantity2 |-> q.quantity2,
        cost1 |-> cost1,
        cost2 |-> cost2,
        total_cost |-> cost1 + cost2,
        hedge_ratio |-> h,
        capital_utilization |-> ((cost1 + cost2) * 100) \div c]

----------------------------------------------------------------------------
(* ZerodhaFeeCalculator                                                    *)
(*                                                                         *)
(* Prices are in paise (hundredths of a rupee), so a turnover              *)
(* quantity * price is a whole number of paise.  A rate is the config      *)
(* value times 10^7.  An amount of money is kept exactly, as a record      *)
(* [p, f] that stands for p + f / 10^9 paise with 0 <= f < 10^9 (p may be  *)
(* negative).  round(x, 2) is the nearest whole number of paise; when x    *)
(* lies exactly halfway, the binary value the program holds is a hair      *)
(* above or below x and the result is either neighbour.                    *)

INTRADAY_BROKERAGE_PERCENT == 3000   \* 0.0003
INTRADAY_BROKERAGE_MAX == 2000       \* Rs 20.0, in paise
STT_DELIVERY_BUY == 10000            \* 0.001
STT_DELIVERY_SELL == 10000           \* 0.001
STT_INTRADAY_SELL == 2500            \* 0.00025
NSE_TRANSACTION_CHARGES == 297       \* 297 / 10000000
BSE_TRANSACTION_CHARGES == 375       \* 375 / 10000000
SEBI_CHARGES == 10                   \* 10 / 10000000
STAMP_DUTY_DELIVERY == 1500          \* 1500 / 10000000
STAMP_DUTY_INTRADAY == 300           \* 300 / 10000000
GST_RATE == 18                       \* 0.18, in hundredths
DP_CHARGES == 1350                   \* Rs 13.5, in paise

Unit == 10^9

Money(p, f) == [p |-> p, f |-> f]
Paise(p) == Money(p, 0)

\* p + f / 10^9 with any f >= 0, brought to 0 <= f < 10^9
normalize(p, f) == Money(p + f \div Unit, f % Unit)

plus(a, b) == normalize(a.p + b.p, a.f + b.f)

\* a whole number of paise minus an amount
minus(g, a) == IF a.f = 0 THEN Money(g - a.p, 0) ELSE Money(g - a.p - 1, Unit - a.f)

less(a, b) == a.p < b.p \/ (a.p = b.p /\ a.f < b.f)
leq(a, b) == ~less(b, a)

\* min(a, b) on amounts
money_min(a, b) == IF less(b, a) THEN b ELSE a

\* turnover * rate: turnover in paise, rate times 10^7
times_rate(turnover, rate) ==
    LET x == (turnover \div 10000) * rate       \* thousandths of a paisa
        y == (turnover % 10000) * rate          \* 10^-7 paise
        lo == (x % 1000) * 10000 + y
    IN Money(x \div 1000 + lo \div 10000000, (lo % 10000000) * 100)

\* round(x, 2) of an amount: the whole numbers of paise it can give
round2(a) ==
    IF 2 * a.f < Unit THEN {a.p}
    ELSE IF 2 * a.f > Unit THEN {a.p + 1}
    ELSE {a.p, a.p + 1}

is_delivery(tt) == tt = "delivery"     \* trade_type.lower() == "delivery"
is_nse(ex) == ex = "NSE"               \* exchange.upper() == "NSE"

calculate_brokerage(q, price, tt) ==
    IF is_delivery(tt) THEN Paise(0)
    ELSE money_min(times_rate(q * price, INTRADAY_BROKERAGE_PERCENT),
                   Paise(INTRADAY_BROKERAGE_MAX))

\* the intraday tax taken on the buy side instead of the sell side
calculate_stt_BuySide(q, buy, sell, tt) ==
    IF is_delivery(tt)
    THEN plus(times_rate(q * buy, STT_DELIVERY_BUY),
              times_rate(q * sell, STT_DELIVERY_SELL))
    ELSE times_rate(q * buy, STT_INTRADAY_SELL)

calculate_stt(q, buy, sell, tt) ==
    IF is_delivery(tt)
    THEN plus(times_rate(q * buy, STT_DELIVERY_BUY),
              times_rate(q * sell, STT_DELIVERY_SELL))
    ELSE times_rate(q * sell, STT_INTRADAY_SELL)

calculate_transaction_charges(q, price, ex) ==
    IF is_nse(ex) THEN times_rate(q * price, NSE_TRANSACTION_CHARGES)
    ELSE times_rate(q * price, BSE_TRANSACTION_CHARGES)

calculate_sebi_charges(q, price) == times_rate(q * price, SEBI_CHARGES)

calculate_stamp_duty(q, price, tt) ==
    IF is_delivery(tt) THEN times_rate(q * price, STAMP_DUTY_DELIVERY)
    ELSE times_rate(q * price, STAMP_DUTY_INTRADAY)

\* (brokerage + transaction_charges) * GST_RATE
calculate_gst(brokerage, transaction_charges) ==
    LET taxable_amount == plus(brokerage, transaction_charges)
        x == taxable_amount.p * GST_RATE
    IN normalize(x \div 100,
                 (x % 100) * 10000000 + (taxable_amount.f \div 100) * GST_RATE)

\* the brokerage with one cap for the round trip instead of one for each leg
total_brokerage_OneCap(q, buy, sell, tt) ==
    IF is_delivery(tt) THEN Paise(0)
    ELSE money_min(times_rate(q * buy + q * sell, INTRADAY_BROKERAGE_PERCENT),
                   Paise(INTRADAY_BROKERAGE_MAX))

\* brokerage_buy + brokerage_sell
total_brokerage(q, buy, sell, tt) ==
    plus(calculate_brokerage(q, buy, tt), calculate_brokerage(q, sell, tt))

\* the total without the GST
sum_charges_NoGst(brokerage, stt, transaction, sebi, stamp_duty, gst, dp) ==
    plus(plus(plus(plus(plus(brokerage, stt), transaction), sebi), stamp_duty),
         dp)

\* total_brokerage + stt + total_transaction_charges + total_sebi_charges +
\* stamp_duty + gst + dp_charges
sum_charges(brokerage, stt, transaction, sebi, stamp_duty, gst, dp) ==
    plus(plus(plus(plus(plus(plus(brokerage, stt), transaction), sebi),
         stamp_duty), gst), dp)

\* the amounts calculate_total_charges computes before it rounds them
amounts(q, buy, sell, tt, ex, dp) ==
    LET brokerage == total_brokerage(q, buy, sell, tt)
        stt == calculate_stt(q, buy, sell, tt)
        transaction_charges ==
            plus(calculate_transaction_charges(q, buy, ex),
                 calculate_transaction_charges(q, sell, ex))
        sebi_charges ==
            plus(calculate_sebi_charges(q, buy), calculate_sebi_charges(q, sell))
        stamp_duty == calculate_stamp_duty(q, buy, tt)
        gst == calculate_gst(brokerage, transaction_charges)
        dp_charges == IF dp THEN Paise(DP_CHARGES) ELSE Paise(0)
        total_charges ==
            sum_charges(brokerage, stt, transaction_charges, sebi_charges,
                        stamp_duty, gst, dp_charges)
        gross_profit == (sell - buy) * q
    IN [brokerage |-> brokerage,
        stt |-> stt,
        transaction_charges |-> transaction_charges,
        sebi_charges |-> sebi_charges,
        stamp_duty |-> stamp_duty,
        gst |-> gst,
        dp_charges |-> dp_charges,
        total_charges |-> total_charges,
        gross_profit |-> Paise(gross_profit),
        net_profit |-> minus(gross_profit, total_charges)]

\* the k-th of the nine decimals of f / 10^9, k = 0 .. 8
decimal(f, k) == (f \div 10^(8 - k)) % 10

\* five more decimals of the quotient of an amount by a whole number
RECURSIVE long_division(_, _, _, _, _)
long_division(quot, rem, f, by, k) ==
    IF k = 5 THEN [quot |-> quot, rem |-> rem]
    ELSE LET t == rem * 10 + decimal(f, k)
         IN long_division(quot * 10 + t \div by, t % by, f, by, k + 1)

\* round((net_profit / (quantity * buy_price)) * 100, 3), in thousandths of
\* a percent: the values it can give; buy_value > 0
percent3(net_profit, buy_value) ==
    LET d == long_division(net_profit.p \div buy_value, net_profit.p % buy_value,
                           net_profit.f, buy_value, 0)
        rest == net_profit.f % 10000
    IN IF 2 * d.rem > buy_value \/ (2 * d.rem = buy_value /\ rest > 0)
       THEN {d.quot + 1}
       ELSE IF 2 * d.rem < buy_value THEN {d.quot}
       ELSE {d.quot, d.quot + 1}

\* net_profit / (quantity * buy_price) with quantity * buy_price = 0.0
ZeroDivisionError == [error |-> "float division by zero"]

\* the dictionaries calculate_total_charges can return, or the exception
\* that leaves it
calculate_total_charges(q, buy, sell, tt, ex, dp) ==
    LET a == amounts(q, buy, sell, tt, ex, dp)
    IN IF q * buy = 0 THEN {ZeroDivisionError}
       ELSE {[breakdown |->
                 [brokerage |-> brokerage,
                  stt |-> stt,
                  transaction_charges |-> transaction_charges,
                  sebi_charges |-> sebi_charges,
                  stamp_duty |-> stamp_duty,
                  gst |-> gst,
                  dp_charges |-> dp_charges],
              totals |->
                 [total_charges |-> total_charges,
                  gross_profit |-> gross_profit,
                  net_profit |-> net_profit,
                  net_profit_percent |-> net_profit_percent],
              trade_details |->
                 [quantity |-> q,
                  buy_price |-> buy,
                  sell_price |-> sell,
                  buy_value |-> q * buy,
                  sell_value |-> q * sell,
                  trade_type |-> tt,
                  exchange |-> ex]] :
                brokerage \in round2(a.brokerage),
                stt \in round2(a.stt),
                transaction_charges \in round2(a.transaction_charges),
                sebi_charges \in round2(a.sebi_charges),
                stamp_duty \in round2(a.stamp_duty),
                gst \in round2(a.gst),
                dp_charges \in round2(a.dp_charges),
                total_charges \in round2(a.total_charges),
                gross_profit \in round2(a.gross_profit),
                net_profit \in round2(a.net_profit),
                net_profit_percent \in percent3(a.net_profit, q * buy)}

----------------------------------------------------------------------------
(* is_trade_profitable and validate_trade_profitability                    *)

MIN_PROFIT_THRESHOLD == 1    \* 0.001, in thousandths

\* profit_percent > min_profit_percent: the boundary left out
is_profitable_Strict(profit_percent, min_percent) == profit_percent > min_percent

\* profit_percent >= min_profit_percent
is_profitable(profit_percent, min_percent) == profit_percent >= min_percent

\* the tuples (is_profitable, net_profit, profit_percent), given by the names
\* of their parts, that is_trade_profitable can return, or the exception of
\* calculate_total_charges, which it lets through
is_trade_profitable(q, buy, sell, min_percent, tt, ex) ==
    {IF c = ZeroDivisionError THEN ZeroDivisionError
     ELSE [is_profitable |->
              is_profitable(c.totals.net_profit_percent, min_percent),
           net_profit |-> c.totals.net_profit,
           profit_percent |-> c.totals.net_profit_percent] :
        c \in calculate_total_charges(q, buy, sell, tt, ex, FALSE)}

\* (net_profit / total_investment) * 100, not rounded: the exact quotient
\* and the sign of what the float differs from it by
Percent(num, den, err) == [num |-> num, den |-> den, err |-> err]

\* the float differs from the exact value by far less than two distinct
\* quotients of paise amounts differ: its sign matters, and is kept, only
\* where the exact value is the threshold itself
float_errors(num, den) ==
    IF num * 1000 = MIN_PROFIT_THRESHOLD * den THEN {-1, 0, 1} ELSE {0}

\* net_profit_percent >= MIN_PROFIT_THRESHOLD * 100
meets_threshold(percent) ==
    \/ percent.num * 1000 > MIN_PROFIT_THRESHOLD * percent.den
    \/ /\ percent.num * 1000 = MIN_PROFIT_THRESHOLD * percent.den
       /\ percent.err >= 0

\* the except clause: return {'error': str(e)}
ValidationError == [error |-> "str(e)"]

\* the dictionaries validate_trade_profitability can return
validate_trade_profitability(q1, q2, entry1, entry2, exit1, exit2, direction) ==
    LET fees1 ==
            IF direction > 0
            THEN calculate_total_charges(q1, exit1, entry1, "intraday", "NSE",
                                         FALSE)
            ELSE calculate_total_charges(q1, entry1, exit1, "intraday", "NSE",
                                         FALSE)
        fees2 ==
            IF direction > 0
            THEN calculate_total_charges(q2, entry2, exit2, "intraday", "NSE",
                                         FALSE)
            ELSE calculate_total_charges(q2, exit2, entry2, "intraday", "NSE",
                                         FALSE)
        total_investment == q1 * entry1 + q2 * entry2
    IN IF ZeroDivisionError \in fees1 \cup fees2 \/ total_investment = 0
       THEN {ValidationError}
       ELSE UNION {
            LET total_fees == f1.totals.total_charges + f2.totals.total_charges
                gross_profit == f1.totals.gross_profit + f2.totals.gross_profit
                net_profit == gross_profit - total_fees
            IN {[is_profitable |->
                    meets_threshold(Percent(net_profit, total_investment, e)),
                 gross_profit |-> gross_profit,
                 total_fees |-> total_fees,
                 net_profit |-> net_profit,
                 net_profit_percent |->
                    Percent(net_profit, total_investment, e),
                 total_investment |-> total_investment,
                 fees_breakdown |->
                    [stock1_fees |-> f1.totals.total_charges,
                     stock2_fees |-> f2.totals.total_charges],
                 recommendation |->
                    IF meets_threshold(Percent(net_profit, total_investment, e))
                    THEN "EXECUTE" ELSE "SKIP"] :
                   e \in float_errors(net_profit, total_investment)} :
            f1 \in fees1, f2 \in fees2}

----------------------------------------------------------------------------
(* Specification of the signal generator: analyze_pair from the z-score    *)
(* series on (generate_trading_signals, then the current recommendation)   *)

Zeros(n) == [t \in 1..n |-> 0]
Falses(n) == [t \in 1..n |-> FALSE]

CurrentIdle == current_z_score = NaN /\ current_signal = NoSignal

SignalsIdle ==
    /\ z_score = <<>>
    /\ signal = <<>>
    /\ position = <<>>
    /\ current_position = 0
    /\ i = FirstIndex
    /\ entry = <<>>
    /\ exit = <<>>

CointIdle ==
    /\ price_series_1 = {}
    /\ price_series_2 = {}
    /\ coint_called = FALSE
    /\ coint_result = NoResult

\* the functions a specification does not run stay as they are built
ScreenIdle ==
    /\ pair_outcomes = <<>>
    /\ next_pair = 1
    /\ analysed = <<>>
    /\ viable_pairs = <<>>

SizingIdle ==
    /\ price1 = 0
    /\ price2 = 0
    /\ hedge_ratio = 0
    /\ available_capital = 0
    /\ sizing = NoResult

FeeIdle ==
    /\ quantity = 0
    /\ buy_price = 0
    /\ sell_price = 0
    /\ trade_type = "intraday"
    /\ exchange = "NSE"
    /\ include_dp_charges = FALSE
    /\ charges = NoResult

ValidationIdle ==
    /\ quantity1 = 0
    /\ quantity2 = 0
    /\ entry_price1 = 0
    /\ entry_price2 = 0
    /\ exit_price1 = 0
    /\ exit_price2 = 0
    /\ trade_direction = 1
    /\ validation = NoResult

ProfitIdle ==
    /\ min_profit_percent = 0
    /\ profitable = NoResult
    /\ ValidationIdle

SearchIdle == iterations = 0 /\ minimum_price = None

StartupIdle == trading_config = NoResult /\ operations_run = {}

DashboardIdle ==
    /\ dashboard_viable_pairs = <<>>
    /\ is_monitoring = FALSE
    /\ screening_thread = FALSE
    /\ workers = <<>>
    /\ log_queue = 0
    /\ display_pending = FALSE

OtherIdle == StartupIdle /\ DashboardIdle

NotSignalsIdle ==
    /\ CointIdle /\ ScreenIdle /\ SizingIdle /\ FeeIdle /\ ProfitIdle
    /\ SearchIdle /\ OtherIdle
NotCurrentIdle ==
    /\ SignalsIdle /\ CointIdle /\ ScreenIdle /\ SizingIdle /\ FeeIdle
    /\ ProfitIdle /\ SearchIdle /\ OtherIdle
NotCointIdle ==
    /\ SignalsIdle /\ CurrentIdle /\ ScreenIdle /\ SizingIdle /\ FeeIdle
    /\ ProfitIdle /\ SearchIdle /\ OtherIdle
NotScreenIdle ==
    /\ SignalsIdle /\ CurrentIdle /\ CointIdle /\ SizingIdle /\ FeeIdle
    /\ ProfitIdle /\ SearchIdle /\ OtherIdle
NotSizingIdle ==
    /\ SignalsIdle /\ CurrentIdle /\ CointIdle /\ ScreenIdle /\ FeeIdle
    /\ ProfitIdle /\ SearchIdle /\ OtherIdle
NotFeeOrProfitIdle ==
    /\ SignalsIdle /\ CurrentIdle /\ CointIdle /\ ScreenIdle /\ SizingIdle
    /\ SearchIdle /\ OtherIdle
NotFeeOrSearchIdle ==
    /\ SignalsIdle /\ CurrentIdle /\ CointIdle /\ ScreenIdle /\ SizingIdle
    /\ ValidationIdle /\ profitable = NoResult /\ OtherIdle
NotFeeIdle == NotFeeOrProfitIdle /\ ProfitIdle
NumericalIdle ==
    /\ SignalsIdle /\ CurrentIdle /\ CointIdle /\ ScreenIdle /\ SizingIdle
    /\ FeeIdle /\ ProfitIdle /\ SearchIdle

\* The frame is built: signal and position columns are all 0
InitSignals ==
    /\ z_score \in SeqsUpTo(ZValues, MaxLen)
    /\ signal = Zeros(Len(z_score))
    /\ position = Zeros(Len(z_score))
    /\ current_position = 0
    /\ i = FirstIndex
    /\ entry = Falses(Len(z_score))
    /\ exit = Falses(Len(z_score))
    /\ pc = "loop"
    /\ CurrentIdle
    /\ NotSignalsIdle

\* One iteration of the for loop (row i of the frame is sequence element i+1)
LoopIteration ==
    /\ pc = "loop"
    /\ i < Len(z_score)
    /\ LET r == LoopBody(current_position, z_score[i + 1])
       IN /\ signal' = [signal EXCEPT ![i + 1] = r.signal]
          /\ current_position' = r.position
          /\ position' = [position EXCEPT ![i + 1] = r.position]
    /\ i' = i + 1
    /\ UNCHANGED <<z_score, entry, exit, pc, currentVars, notSignals>>

\* The loop is over: the entry/exit columns are added and the frame returned;
\* analyze_pair then takes the latest z-score and asks for its recommendation
FinishAnalysis ==
    /\ pc = "loop"
    /\ i >= Len(z_score)
    /\ entry' = EntryColumn(signal)
    /\ exit' = ExitColumn(signal, position)
    /\ current_z_score' = IF Len(z_score) > 0 THEN z_score[Len(z_score)] ELSE 0
    /\ current_signal' = get_current_signal(current_z_score')
    /\ pc' = "done"
    /\ UNCHANGED <<z_score, signal, position, current_position, i, notSignals>>

NextSignals == LoopIteration \/ FinishAnalysis

Spec == InitSignals /\ [][NextSignals]_vars

----------------------------------------------------------------------------
(* The position trace: vocabulary of the properties                        *)

Rows == 1..Len(z_score)

\* Row t of the frame has its final value: the loop has passed it (the first
\* row is never visited and keeps the value the frame was built with)
Settled(t) == t \in Rows /\ t <= i

\* the position held when step t begins (Flat before the first step)
PositionBefore(t) == IF t = 1 THEN 0 ELSE position[t - 1]

Held(t) == PositionBefore(t) # 0

\* C1: the position never goes from LongPair (+1) to ShortPair (-1) or back
\* between two consecutive steps, whatever the z-scores, undefined ones included
C1_NoDirectFlip ==
    \A t \in Rows :
        t > 1 =>
            /\ ~(position[t - 1] = 1 /\ position[t] = -1)
            /\ ~(position[t - 1] = -1 /\ position[t] = 1)

\* a finished trace with an undefined z-score that was LongPair, then Flat,
\* then ShortPair
C1_Witness ==
    /\ pc = "done"
    /\ \E t \in Rows : isna(z_score[t])
    /\ \E s, t, u \in Rows :
           s < t /\ t < u /\ position[s] = 1 /\ position[t] = 0 /\ position[u] = -1

\* C2: stop-loss dominance: a held position and a defined z with
\* |z| > STOP_LOSS_MULTIPLIER give the closing signal and position Flat,
\* whatever the sign of z
C2_StopLossDominance ==
    \A t \in Rows :
        (Settled(t) /\ Held(t) /\ gt(abs(z_score[t]), STOP_LOSS_MULTIPLIER)) =>
            /\ signal[t] = -PositionBefore(t)
            /\ position[t] = 0

\* a stop-loss on the side opposite to the held position: LongPair held and
\* z beyond +Z_SCORE_ENTRY and +STOP_LOSS_MULTIPLIER
C2_Witness ==
    \E t \in Rows :
        /\ Settled(t)
        /\ PositionBefore(t) = 1
        /\ gt(z_score[t], STOP_LOSS_MULTIPLIER)
        /\ gt(z_score[t], Z_SCORE_ENTRY)

\* C3: the entry rule at every step that starts Flat with a defined z:
\* z > Z_SCORE_ENTRY gives signal -1 and ShortPair, z < -Z_SCORE_ENTRY gives
\* signal +1 and LongPair, anything else signal 0 and Flat
C3_EntryRule ==
    pc = "done" =>
        \A t \in Rows :
            (~Held(t) /\ ~isna(z_score[t])) =>
                /\ z_score[t] > Z_SCORE_ENTRY =>
                       (signal[t] = -1 /\ position[t] = -1)
                /\ z_score[t] < -Z_SCORE_ENTRY =>
                       (signal[t] = 1 /\ position[t] = 1)
                /\ (z_score[t] <= Z_SCORE_ENTRY /\ z_score[t] >= -Z_SCORE_ENTRY) =>
                       (signal[t] = 0 /\ position[t] = 0)

\* C4: mean-reversion exit: a held position p and a defined z with
\* |z| < Z_SCORE_EXIT give signal -p and position Flat; the trace
\* [0.1, 2.3, 1.0, 0.3] gives the signals [0, -1, 0, +1] and ends Flat
C4_MeanReversionExit ==
    /\ \A t \in Rows :
          (Settled(t) /\ Held(t) /\ lt(abs(z_score[t]), Z_SCORE_EXIT)) =>
              /\ signal[t] = -PositionBefore(t)
              /\ position[t] = 0
    /\ (pc = "done" /\ z_score = <<1, 23, 10, 3>>) =>
          /\ signal = <<0, -1, 0, 1>>
          /\ position[4] = 0

\* the example trace has been run to its end
C4_Witness == pc = "done" /\ z_score = <<1, 23, 10, 3>> /\ current_position = 0

\* C5: the state machine is applied to every element of the series, the first
\* included: the signal and position of each step t are the transition rules
\* applied to z[t] and the position after step t-1 (Flat before the first)
C5_EveryElementStepped ==
    pc = "done" =>
        \A t \in Rows :
            /\ signal[t] = LoopBody(PositionBefore(t), z_score[t]).signal
            /\ position[t] = LoopBody(PositionBefore(t), z_score[t]).position

\* C6: no-op steps: an undefined z, or a held position with
\* Z_SCORE_EXIT <= |z| <= STOP_LOSS_MULTIPLIER, give signal 0 and leave the
\* position as it was
C6_NoOpSteps ==
    \A t \in Rows :
        (/\ Settled(t)
         /\ \/ isna(z_score[t])
            \/ /\ Held(t)
               /\ ~isna(z_score[t])
               /\ abs(z_score[t]) >= Z_SCORE_EXIT
               /\ abs(z_score[t]) <= STOP_LOSS_MULTIPLIER) =>
            /\ signal[t] = 0
            /\ position[t] = PositionBefore(t)

\* a position was held through an undefined z-score and through a z-score
\* exactly on the stop-loss threshold
C6_Witness ==
    /\ \E t \in Rows : Settled(t) /\ Held(t) /\ isna(z_score[t])
    /\ \E t \in Rows :
          Settled(t) /\ Held(t) /\ abs(z_score[t]) = STOP_LOSS_MULTIPLIER

\* the running sum of the signals up to step t
RECURSIVE SignalSum(_)
SignalSum(t) == IF t = 0 THEN 0 ELSE SignalSum(t - 1) + signal[t]

\* C26: at every step the signal is the change of position over that step
\* (Flat before the first step); so signal and position are in {-1, 0, 1}, a
\* signal is non-zero exactly when the position changes, and the running sum
\* of the signals is the position
C26_SignalIsPositionChange ==
    \A t \in Rows :
        Settled(t) =>
            /\ signal[t] = position[t] - PositionBefore(t)
            /\ signal[t] \in {-1, 0, 1}
            /\ position[t] \in {-1, 0, 1}
            /\ signal[t] # 0 <=> position[t] # PositionBefore(t)
            /\ SignalSum(t) = position[t]

\* a finished trace that opened a position, closed it by stop loss and
\* opened the opposite one
C26_Witness ==
    /\ pc = "done"
    /\ \E s, t, u \in Rows :
           /\ s < t /\ t < u
           /\ signal[s] = 1 /\ position[s] = 1
           /\ signal[t] = -1 /\ position[t] = 0
           /\ gt(abs(z_score[t]), STOP_LOSS_MULTIPLIER)
           /\ signal[u] = -1 /\ position[u] = -1

\* the steps at which a position is opened
Openings == {t \in Rows : PositionBefore(t) = 0 /\ position[t] # 0}

\* signals['entry'].sum(), the signals_count of analyze_pair
signals_count == Cardinality({t \in Rows : entry[t]})

\* C27: the entry flag is true at step t exactly when the position goes from
\* Flat to LongPair or ShortPair at step t, so signals_count is the number
\* of positions opened
C27_EntryMarksOpenings ==
    pc = "done" =>
        /\ \A t \in Rows : entry[t] <=> t \in Openings
        /\ signals_count = Cardinality(Openings)

\* C7: the recommendation is decided by the latest z-score alone: undefined
\* gives NO_DATA, z > Z_SCORE_ENTRY SHORT_PAIR, z < -Z_SCORE_ENTRY LONG_PAIR,
\* |z| < Z_SCORE_EXIT CLOSE_POSITION, every other defined z HOLD
C7_RecommendationFromLatestZ ==
    pc = "done" =>
        LET z == current_z_score
            kind == current_signal.signal
        IN /\ Len(z_score) > 0 => z = z_score[Len(z_score)]
           /\ isna(z) => kind = "NO_DATA"
           /\ gt(z, Z_SCORE_ENTRY) => kind = "SHORT_PAIR"
           /\ lt(z, -Z_SCORE_ENTRY) => kind = "LONG_PAIR"
           /\ lt(abs(z), Z_SCORE_EXIT) => kind = "CLOSE_POSITION"
           /\ (/\ ~isna(z)
               /\ z <= Z_SCORE_ENTRY
               /\ z >= -Z_SCORE_ENTRY
               /\ abs(z) >= Z_SCORE_EXIT) => kind = "HOLD"

\* the trace ends with LongPair held while the recommendation is SHORT_PAIR
C7_Witness ==
    /\ pc = "done"
    /\ current_position = 1
    /\ current_signal.signal = "SHORT_PAIR"

----------------------------------------------------------------------------
(* _get_current_signal as a function of its argument                       *)

MaxZ == 80                   \* z-scores from -8.0 to 8.0, and undefined

CurrentZValues == (-MaxZ..MaxZ) \cup {NaN}

InitCurrent ==
    /\ pc = "call"
    /\ current_z_score \in CurrentZValues
    /\ current_signal = NoSignal
    /\ NotCurrentIdle

\* _get_current_signal(current_z_score) returns
GetCurrentSignal ==
    /\ pc = "call"
    /\ current_signal' = get_current_signal(current_z_score)
    /\ pc' = "returned"
    /\ UNCHANGED <<current_z_score, notCurrent>>

NextCurrent == GetCurrentSignal

SpecCurrent == InitCurrent /\ [][NextCurrent]_vars

\* the claimed strength min(|z| / Z_SCORE_ENTRY, 3.0) of a defined z, in
\* hundredths, stated without a division
IsClaimedStrength(z, s) ==
    IF abs(z) * 100 >= MaxStrength * Z_SCORE_ENTRY
    THEN s = MaxStrength
    ELSE s * Z_SCORE_ENTRY = abs(z) * 100

\* C8 as stated: for every defined z the strength is min(|z| / Z_SCORE_ENTRY, 3.0)
\* whichever signal kind is returned; an undefined z gives NO_DATA with
\* strength 0
C8_StrengthOfEveryKind ==
    pc = "returned" =>
        IF isna(current_z_score)
        THEN current_signal.signal = "NO_DATA" /\ current_signal.strength = 0
        ELSE IsClaimedStrength(current_z_score, current_signal.strength)

\* C8 amended: SHORT_PAIR and LONG_PAIR carry min(|z| / Z_SCORE_ENTRY, 3.0),
\* CLOSE_POSITION carries 1.0, HOLD and NO_DATA carry 0; the strength is
\* always within [0, 3]
C8_StrengthByKind ==
    pc = "returned" =>
        LET z == current_z_score
            kind == current_signal.signal
            s == current_signal.strength
        IN /\ kind \in {"SHORT_PAIR", "LONG_PAIR"} => IsClaimedStrength(z, s)
           /\ kind = "CLOSE_POSITION" => s = 100
           /\ kind \in {"HOLD", "NO_DATA"} => s = 0
           /\ isna(z) => kind = "NO_DATA"
           /\ s >= 0 /\ s <= MaxStrength

\* an entry recommendation whose strength is held at the cap 3.0 although
\* |z| / Z_SCORE_ENTRY is above it
C8_Witness ==
    /\ pc = "returned"
    /\ current_signal.signal = "LONG_PAIR"
    /\ current_signal.strength = MaxStrength
    /\ abs(current_z_score) * 100 > MaxStrength * Z_SCORE_ENTRY

\* C9: the dictionary returned carries the four fields signal, strength,
\* description and action, for each of the five signal kinds
C9_FourFields ==
    pc = "returned" =>
        DOMAIN current_signal = {"signal", "strength", "description", "action"}

----------------------------------------------------------------------------
(* test_cointegration, one call                                            *)

DaysAround == 2              \* series lengths explored around MIN_DATA_POINTS

Lengths == (MIN_DATA_POINTS - DaysAround)..(MIN_DATA_POINTS + DaysAround)

\* what statsmodels' coint returns: the p-value and the 5% critical value
\* (in hundredths)
TestOutcomes == [p_value : {0, 49, 50, 51, 1000, NaN}, critical_value : {-337}]

\* what the fitted LinearRegression holds (tenths, units, hundredths)
FitOutcomes == [hedge_ratio : {-5, 12}, intercept : {0, 40}, r_squared : {90}]

InitCoint ==
    /\ pc = "call"
    /\ price_series_1 \in {1..n : n \in Lengths}
    /\ price_series_2 \in {a..b : a \in 1..(DaysAround + 1), b \in Lengths}
    /\ coint_called = FALSE
    /\ coint_result = NoResult
    /\ NotCointIdle

\* fewer than 30 aligned observations: the early return
ReturnInsufficient ==
    /\ pc = "call"
    /\ insufficient_data(price_series_1, price_series_2)
    /\ coint_result' = InsufficientResult
    /\ pc' = "returned"
    /\ UNCHANGED <<price_series_1, price_series_2, coint_called, notCoint>>

\* the test and the regression are run and the result is returned
ReturnResult ==
    /\ pc = "call"
    /\ ~insufficient_data(price_series_1, price_series_2)
    /\ \E test \in TestOutcomes, fit \in FitOutcomes :
          coint_result' = NormalResult(price_series_1, price_series_2, test, fit)
    /\ coint_called' = TRUE
    /\ pc' = "returned"
    /\ UNCHANGED <<price_series_1, price_series_2, notCoint>>

\* a library call of the try block raises (coint, or the regression after
\* it): the except clause returns.  Both calls come after the length check;
\* building and aligning the frame of two date-indexed series does not raise
ReturnError ==
    /\ pc = "call"
    /\ ~insufficient_data(price_series_1, price_series_2)
    /\ coint_result' = ErrorResult
    /\ coint_called' = TRUE
    /\ pc' = "returned"
    /\ UNCHANGED <<price_series_1, price_series_2, notCoint>>

NextCoint == ReturnInsufficient \/ ReturnResult \/ ReturnError

SpecCoint == InitCoint /\ [][NextCoint]_vars

NumAligned == Cardinality(price_series_1 \cap price_series_2)

\* C10: in every result (normal, insufficient data, caught exception)
\* cointegrated is true exactly when the result's p-value is strictly below
\* MAX_COINTEGRATION_PVALUE and at least 30 observations are aligned
C10_CointegratedIff ==
    pc = "returned" =>
        (coint_result.cointegrated <=>
            (/\ ~isna(coint_result.p_value)
             /\ coint_result.p_value < MAX_COINTEGRATION_PVALUE
             /\ NumAligned >= MIN_DATA_POINTS))

\* a cointegrated result on exactly 30 aligned observations
C10_Witness ==
    /\ pc = "returned"
    /\ coint_result.cointegrated
    /\ NumAligned = MIN_DATA_POINTS

\* C11: with fewer than 30 days on which both series have a price the
\* statistical test is not run and the result is cointegrated = false,
\* p_value = 1.0, error = "Insufficient data"; with exactly 30 the test is run
C11_InsufficientData ==
    pc = "returned" =>
        /\ NumAligned < MIN_DATA_POINTS =>
              /\ ~coint_called
              /\ coint_result = InsufficientResult
              /\ coint_result.cointegrated = FALSE
              /\ coint_result.p_value = 1000
              /\ coint_result.error = "Insufficient data"
        /\ NumAligned = MIN_DATA_POINTS => coint_called

\* test_cointegration has returned on series that share 29 days although
\* each of them is 30 days long or more
C11_Witness ==
    /\ pc = "returned"
    /\ NumAligned = MIN_DATA_POINTS - 1
    /\ Cardinality(price_series_1) >= MIN_DATA_POINTS
    /\ Cardinality(price_series_2) >= MIN_DATA_POINTS

----------------------------------------------------------------------------
(* screen_all_pairs, one call                                              *)

NumPairs == 3                \* pairs in DEFAULT_PAIRS explored

\* p-values of cointegrated pairs, in thousandths
ViablePValues == {p \in {10, 30, 49} : is_cointegrated(p)}

AnalysisOutcomes ==
    {[kind |-> "raise"], [kind |-> "failed"], [kind |-> "rejected"]}
        \cup {[kind |-> "viable", p_value |-> p] : p \in ViablePValues}

InitScreen ==
    /\ pc = "screen"
    /\ pair_outcomes \in [1..NumPairs -> AnalysisOutcomes]
    /\ next_pair = 1
    /\ analysed = <<>>
    /\ viable_pairs = <<>>
    /\ NotScreenIdle

\* one pass of the for loop: analyze_pair is called for the next pair
ScreenPair ==
    /\ pc = "screen"
    /\ next_pair <= Len(pair_outcomes)
    /\ analysed' = Append(analysed, next_pair)
    /\ LET r == screen_pair(viable_pairs, next_pair, pair_outcomes[next_pair])
       IN /\ viable_pairs' = r.viable_pairs
          /\ pc' = IF r.raised THEN "raised" ELSE "screen"
    /\ next_pair' = next_pair + 1
    /\ UNCHANGED <<pair_outcomes, notScreen>>

\* the loop is over: the list is sorted and returned
ScreenReturn ==
    /\ pc = "screen"
    /\ next_pair > Len(pair_outcomes)
    /\ viable_pairs' = sort_viable_pairs(viable_pairs)
    /\ pc' = "returned"
    /\ UNCHANGED <<pair_outcomes, next_pair, analysed, notScreen>>

NextScreen == ScreenPair \/ ScreenReturn

SpecScreen == InitScreen /\ [][NextScreen]_vars

\* the pairs whose analysis failed in this pass
FailedPairs ==
    {k \in DOMAIN pair_outcomes : pair_outcomes[k].kind \in {"raise", "failed"}}

\* the pairs of the list returned
ListedPairs == {viable_pairs[n].pair : n \in DOMAIN viable_pairs}

\* C12: failure isolation: every configured pair is analysed exactly once, in
\* configuration order, whatever happened to the pairs before it; a pair
\* whose analysis failed is not in the list; the call never raises
C12_FailureIsolation ==
    /\ pc # "raised"
    /\ analysed = [k \in 1..(next_pair - 1) |-> k]
    /\ pc = "returned" =>
          /\ analysed = [k \in 1..NumPairs |-> k]
          /\ FailedPairs \cap ListedPairs = {}

\* a pass in which an exception left analyze_pair for the first pair, the
\* second pair's analysis failed, and the last pair is returned as viable
C12_Witness ==
    /\ pc = "returned"
    /\ pair_outcomes[1].kind = "raise"
    /\ pair_outcomes[2].kind = "failed"
    /\ ListedPairs = {NumPairs}

\* C13: the list returned is ordered by non-decreasing p-value, and it is
\* sorted only when every pair has been analysed: until then it holds the
\* viable pairs in the order they were analysed
C13_RankedAfterAll ==
    /\ pc = "returned" =>
          /\ Len(analysed) = NumPairs
          /\ \A n \in 1..(Len(viable_pairs) - 1) :
                 viable_pairs[n].cointegration_details.p_value
                     <= viable_pairs[n + 1].cointegration_details.p_value
    /\ pc = "screen" =>
          \A n \in 1..(Len(viable_pairs) - 1) :
              viable_pairs[n].pair < viable_pairs[n + 1].pair

\* a list returned in another order than its pairs were analysed in
C13_Witness ==
    /\ pc = "returned"
    /\ Len(viable_pairs) = NumPairs
    /\ \E n \in 1..(Len(viable_pairs) - 1) :
           viable_pairs[n].pair > viable_pairs[n + 1].pair

----------------------------------------------------------------------------
(* calculate_position_size, one call                                       *)

Prices == {50, 100, 700, 1500, 3500}
HedgeRatios == {-25, -10, -5, 5, 8, 10, 12, 25}
Capitals == {None, 50000, 500000, 1000000}

InitSizing ==
    /\ pc = "size"
    /\ price1 \in Prices
    /\ price2 \in Prices
    /\ hedge_ratio \in HedgeRatios
    /\ available_capital \in Capitals
    /\ sizing = NoResult
    /\ NotSizingIdle

CalculatePositionSize ==
    /\ pc = "size"
    /\ sizing' = calculate_position_size(price1, price2, hedge_ratio,
                                         available_capital)
    /\ pc' = "sized"
    /\ UNCHANGED <<price1, price2, hedge_ratio, available_capital, notSizing>>

NextSizing == CalculatePositionSize

SpecSizing == InitSizing /\ [][NextSizing]_vars

\* target_exposure = available_capital * MAX_POSITION_SIZE, times 100
TargetExposure100 == capital_or_default(available_capital) * MAX_POSITION_SIZE

\* C14: for positive prices, hedge ratio and capital, the total cost
\* returned does not exceed the target exposure
C14_ExposureRespected ==
    (pc = "sized" /\ hedge_ratio > 0) =>
        sizing.total_cost * 100 <= TargetExposure100

\* the largest quantity the inputs explored can give
QuantityRange == 1000

\* q = floor(targetExposure / (|h| * price1 + price2)), by its defining
\* inequalities
IsBaseQuantity(q) ==
    LET d == 10 * (abs(hedge_ratio) * price1 + 10 * price2)
    IN /\ q * d <= TargetExposure100
       /\ TargetExposure100 < (q + 1) * d

\* r = floor(|h| * q)
IsHedgedQuantity(r, q) ==
    /\ 10 * r <= abs(hedge_ratio) * q
    /\ abs(hedge_ratio) * q < 10 * (r + 1)

\* C15: quantity2 = max(1, floor(T / (|h| p1 + p2))) and quantity1 =
\* max(1, floor(|h| floor(T / (|h| p1 + p2)))); both are at least 1; the
\* sign of the hedge ratio does not change them
C15_Quantities ==
    pc = "sized" =>
        /\ \E q \in 0..QuantityRange, r \in 0..QuantityRange :
              /\ IsBaseQuantity(q)
              /\ IsHedgedQuantity(r, q)
              /\ sizing.quantity2 = max(1, q)
              /\ sizing.quantity1 = max(1, r)
        /\ sizing.quantity1 >= 1
        /\ sizing.quantity2 >= 1
        /\ LET mirrored == calculate_position_size(price1, price2, -hedge_ratio,
                                                   available_capital)
           IN /\ sizing.quantity1 = mirrored.quantity1
              /\ sizing.quantity2 = mirrored.quantity2

\* a negative hedge ratio of magnitude above 1 with a budget too small for
\* one unit of the pair: both quantities are raised to 1
C15_Witness ==
    /\ pc = "sized"
    /\ hedge_ratio < -10
    /\ IsBaseQuantity(0)
    /\ sizing.quantity1 = 1
    /\ sizing.quantity2 = 1

----------------------------------------------------------------------------
(* calculate_total_charges, one call                                       *)

Quantities == {1, 10, 99, 100}
\* Rs 0, 99.95, 600, 700, 1500, 1515
PricesPaise == {0, 9995, 60000, 70000, 150000, 151500}
TradeTypes == {"intraday", "delivery"}
Exchanges == {"NSE", "BSE"}

InitFee ==
    /\ pc = "call"
    /\ quantity \in Quantities
    /\ buy_price \in PricesPaise
    /\ sell_price \in PricesPaise
    /\ trade_type \in TradeTypes
    /\ exchange \in Exchanges
    /\ include_dp_charges \in BOOLEAN
    /\ charges = NoResult
    /\ NotFeeIdle

CalculateTotalCharges ==
    /\ pc = "call"
    /\ charges' \in calculate_total_charges(quantity, buy_price, sell_price,
                                            trade_type, exchange,
                                            include_dp_charges)
    /\ pc' = IF charges' = ZeroDivisionError THEN "raised" ELSE "returned"
    /\ UNCHANGED <<feeArgs, notFee>>

NextFee == CalculateTotalCharges

SpecFee == InitFee /\ [][NextFee]_vars

\* min(turnover * INTRADAY_BROKERAGE_PERCENT, INTRADAY_BROKERAGE_MAX) of one
\* leg, in ten-thousandths of a paisa
LegBrokerage(price) ==
    min(quantity * price * (INTRADAY_BROKERAGE_PERCENT \div 1000),
        INTRADAY_BROKERAGE_MAX * 10000)

\* C16: the brokerage reported is 0 for delivery; for intraday it is the
\* (2-decimal) sum over the two legs of min(quantity * price *
\* INTRADAY_BROKERAGE_PERCENT, INTRADAY_BROKERAGE_MAX), so at most twice the cap
C16_BrokeragePerLeg ==
    pc = "returned" =>
        /\ trade_type = "delivery" => charges.breakdown.brokerage = 0
        /\ trade_type = "intraday" =>
              LET legs == LegBrokerage(buy_price) + LegBrokerage(sell_price)
                  reported == charges.breakdown.brokerage * 10000
              IN /\ reported - legs <= 5000
                 /\ legs - reported <= 5000
                 /\ charges.breakdown.brokerage <= 2 * INTRADAY_BROKERAGE_MAX

\* an intraday round trip whose buy leg is below the cap and whose sell leg
\* is capped
C16_Witness ==
    /\ pc = "returned"
    /\ trade_type = "intraday"
    /\ LegBrokerage(buy_price) < INTRADAY_BROKERAGE_MAX * 10000
    /\ LegBrokerage(sell_price) = INTRADAY_BROKERAGE_MAX * 10000
    /\ charges.breakdown.brokerage > INTRADAY_BROKERAGE_MAX

\* the sum of the seven charges reported in the breakdown
BreakdownSum ==
    charges.breakdown.brokerage + charges.breakdown.stt
        + charges.breakdown.transaction_charges
        + charges.breakdown.sebi_charges + charges.breakdown.stamp_duty
        + charges.breakdown.gst + charges.breakdown.dp_charges

\* C17: as claimed: the total reported is the sum of the seven charges
\* reported, and the net profit reported is the gross profit reported minus
\* the total reported
C17_TotalsAddUp ==
    pc = "returned" =>
        /\ charges.totals.total_charges = BreakdownSum
        /\ charges.totals.net_profit =
              charges.totals.gross_profit - charges.totals.total_charges

\* C17, amended: the total is rounded from the unrounded sum, not added up
\* from the rounded charges: it is within 4 paise of the sum of the seven
\* charges reported, and the net profit reported is within 1 paisa of the
\* gross profit reported minus the total reported
C17_TotalsWithinRounding ==
    pc = "returned" =>
        /\ charges.totals.total_charges - BreakdownSum \in -4..4
        /\ charges.totals.net_profit
              - (charges.totals.gross_profit - charges.totals.total_charges)
                 \in -1..1

\* one share bought and sold at Rs 99.95 intraday on NSE: the charges
\* reported add up to Rs 0.10, the total reported is Rs 0.11
C17_Witness ==
    /\ pc = "returned"
    /\ quantity = 1 /\ buy_price = 9995 /\ sell_price = 9995
    /\ trade_type = "intraday" /\ exchange = "NSE" /\ ~include_dp_charges
    /\ BreakdownSum = 10
    /\ charges.totals.total_charges = 11

\* the unrounded total of the call with the given quantity and prices, the
\* other arguments as they are
TotalFor(q, buy, sell) ==
    amounts(q, buy, sell, trade_type, exchange, include_dp_charges).total_charges

\* C18: for every positive quantity and all non-negative prices the call
\* returns total charges, and they do not decrease when the quantity, the
\* buy price or the sell price grows and the other arguments stay
C18_FeeMonotone ==
    pc # "call" =>
        /\ pc = "returned"
        /\ \A q \in Quantities :
              q >= quantity =>
                  leq(TotalFor(quantity, buy_price, sell_price),
                      TotalFor(q, buy_price, sell_price))
        /\ \A buy \in PricesPaise :
              buy >= buy_price =>
                  leq(TotalFor(quantity, buy_price, sell_price),
                      TotalFor(quantity, buy, sell_price))
        /\ \A sell \in PricesPaise :
              sell >= sell_price =>
                  leq(TotalFor(quantity, buy_price, sell_price),
                      TotalFor(quantity, buy_price, sell))

\* calculate_total_charges(100, 1500.0, 1515.0, "intraday", "NSE")
LiteralExample ==
    /\ quantity = 100 /\ buy_price = 150000 /\ sell_price = 151500
    /\ trade_type = "intraday" /\ exchange = "NSE" /\ ~include_dp_charges

\* C19: as claimed: the literal example returns brokerage 40.00, STT 37.875,
\* transaction charges 8.94, SEBI charges 0.30, stamp duty 4.50, GST 8.81,
\* total charges 100.43, gross profit 1500.00, net profit 1399.57 and net
\* profit percent 0.933
C19_LiteralExample ==
    (pc = "returned" /\ LiteralExample) =>
        /\ charges.breakdown.brokerage = 4000
        /\ charges.breakdown.stt * 10 = 37875
        /\ charges.breakdown.transaction_charges = 894
        /\ charges.breakdown.sebi_charges = 30
        /\ charges.breakdown.stamp_duty = 450
        /\ charges.breakdown.gst = 881
        /\ charges.totals.total_charges = 10043
        /\ charges.totals.gross_profit = 150000
        /\ charges.totals.net_profit = 139957
        /\ charges.totals.net_profit_percent = 933

\* C19, amended: the literal example returns brokerage 40.00, STT 37.875
\* rounded to 2 decimals (37.88, or 37.87 under another rounding of the
\* halfway value), transaction charges 8.95, SEBI charges 0.30, stamp duty
\* 4.50, GST 8.81, total charges 100.44, gross profit 1500.00, net profit
\* 1399.56 and net profit percent 0.933
C19_LiteralExampleRounded ==
    (pc = "returned" /\ LiteralExample) =>
        /\ charges.breakdown.brokerage = 4000
        /\ charges.breakdown.stt \in {3787, 3788}
        /\ charges.breakdown.transaction_charges = 895
        /\ charges.breakdown.sebi_charges = 30
        /\ charges.breakdown.stamp_duty = 450
        /\ charges.breakdown.gst = 881
        /\ charges.totals.total_charges = 10044
        /\ charges.totals.gross_profit = 150000
        /\ charges.totals.net_profit = 139956
        /\ charges.totals.net_profit_percent = 933

C19_Witness ==
    /\ pc = "returned"
    /\ LiteralExample
    /\ charges.breakdown.stt = 3788
    /\ charges.totals.total_charges = 10044

----------------------------------------------------------------------------
(* is_trade_profitable or validate_trade_profitability, one call           *)

MinProfitPercents == {100, 933}        \* 0.1 (the default) and 0.933
ProfitQuantities == {1, 100}
BuyPrices == {0, 9995, 150000}
SellPrices == {9995, 150200, 151500}
PairQuantities == {1, 10}
EntryPrices1 == {0, 100000, 150000}
EntryPrices2 == {0, 150000}
ExitPrices1 == {100000, 100515, 151500}
ExitPrices2 == {150000, 151500}
Directions == {1, -1}

InitProfit ==
    /\ \/ /\ pc = "is_trade_profitable"
          /\ quantity \in ProfitQuantities
          /\ buy_price \in BuyPrices
          /\ sell_price \in SellPrices
          /\ min_profit_percent \in MinProfitPercents
          /\ trade_type \in TradeTypes
          /\ exchange \in Exchanges
          /\ include_dp_charges = FALSE
          /\ ValidationIdle
       \/ /\ pc = "validate_trade_profitability"
          /\ quantity1 \in PairQuantities
          /\ quantity2 \in PairQuantities
          /\ entry_price1 \in EntryPrices1
          /\ entry_price2 \in EntryPrices2
          /\ exit_price1 \in ExitPrices1
          /\ exit_price2 \in ExitPrices2
          /\ trade_direction \in Directions
          /\ validation = NoResult
          /\ min_profit_percent = 0
          /\ quantity = 0 /\ buy_price = 0 /\ sell_price = 0
          /\ trade_type = "intraday" /\ exchange = "NSE"
          /\ include_dp_charges = FALSE
    /\ charges = NoResult
    /\ profitable = NoResult
    /\ NotFeeOrProfitIdle

IsTradeProfitable ==
    /\ pc = "is_trade_profitable"
    /\ profitable' \in is_trade_profitable(quantity, buy_price, sell_price,
                                           min_profit_percent, trade_type,
                                           exchange)
    /\ pc' = IF profitable' = ZeroDivisionError THEN "raised" ELSE "returned"
    /\ UNCHANGED <<feeVars, min_profit_percent, validationArgs, validation,
                   notFeeOrProfit>>

ValidateTradeProfitability ==
    /\ pc = "validate_trade_profitability"
    /\ validation' \in validate_trade_profitability(quantity1, quantity2,
                           entry_price1, entry_price2, exit_price1,
                           exit_price2, trade_direction)
    /\ pc' = "returned"
    /\ UNCHANGED <<feeVars, min_profit_percent, profitable, validationArgs,
                   notFeeOrProfit>>

NextProfit == IsTradeProfitable \/ ValidateTradeProfitability

SpecProfit == InitProfit /\ [][NextProfit]_vars

\* is_trade_profitable has returned its tuple
ProfitableReturned == pc = "returned" /\ profitable # NoResult

\* validate_trade_profitability has returned an analysis, not an error
ValidationReturned ==
    pc = "returned" /\ validation # NoResult /\ validation # ValidationError

\* the net_profit_percent of the dictionary returned is at least
\* MIN_PROFIT_THRESHOLD * 100: above it, or equal to it as a float
AtLeastThreshold ==
    LET p == validation.net_profit_percent
    IN \/ p.num * 1000 > MIN_PROFIT_THRESHOLD * p.den
       \/ p.num * 1000 = MIN_PROFIT_THRESHOLD * p.den /\ p.err >= 0

\* C20: is_trade_profitable says profitable exactly when the fee model's net
\* profit percent for its arguments is at least min_profit_percent, the
\* boundary included; validate_trade_profitability recommends EXECUTE
\* exactly when its net_profit_percent is at least MIN_PROFIT_THRESHOLD *
\* 100, and SKIP otherwise
C20_ProfitableIff ==
    /\ ProfitableReturned =>
          /\ profitable.is_profitable <=>
                 profitable.profit_percent >= min_profit_percent
          /\ \E c \in calculate_total_charges(quantity, buy_price, sell_price,
                                               trade_type, exchange, FALSE) :
                 profitable.profit_percent = c.totals.net_profit_percent
    /\ ValidationReturned =>
          /\ validation.recommendation = "EXECUTE" <=> AtLeastThreshold
          /\ validation.recommendation = "SKIP" <=> ~AtLeastThreshold
          /\ validation.net_profit_percent.num
                 = validation.gross_profit - validation.total_fees
          /\ validation.net_profit_percent.den
                 = quantity1 * entry_price1 + quantity2 * entry_price2

\* a trade whose net profit percent is exactly the minimum asked for, and
\* which is_trade_profitable calls profitable
C20_Witness ==
    /\ ProfitableReturned
    /\ profitable.profit_percent = min_profit_percent
    /\ profitable.is_profitable

----------------------------------------------------------------------------
(* get_minimum_profitable_price, one call; a step is one pass of its loop  *)
(* The candidate sell_price moves in steps of Rs 0.01 from buy_price *     *)
(* 1.01, which need not be a whole number of paise: buy_price is in paise  *)
(* and sell_price in hundredths of a paisa here. The fee model takes       *)
(* quantity and price through their product only, so it is called with the *)
(* quantity in hundreds of shares and both prices in hundredths of a paisa,*)
(* which gives it the same turnovers in paise.                             *)

MaxIterations == 100           \* range(100)
Centipaise == 100              \* hundredths of a paisa in a paisa
PriceStep == 100               \* 0.01 rupee, in hundredths of a paisa
ProfitWindow == 10             \* 0.01 percent, in thousandths of a percent

SearchQuantities == {100, 1000}
\* Rs 0, 10, 99.95, 100.50, 1500
SearchBuyPrices == {0, 1000, 9995, 10050, 150000}
SearchMinPercents == {100, 500, 5000}  \* 0.1 (the default), 0.5 and 5

\* buy_price * 1.01
first_estimate(buy) == buy * 101

\* is_trade_profitable(quantity, buy_price, sell_price, ...) of a candidate
evaluate(q, buy, sell, min_percent, tt, ex) ==
    is_trade_profitable(q \div 100, buy * Centipaise, sell, min_percent, tt, ex)

\* profit_percent > min_profit_percent + 0.01
too_much_profit(profit_percent, min_percent) ==
    profit_percent > min_percent + ProfitWindow

lower_Twice(price) == price - 2 * PriceStep

\* sell_price -= 0.01
lower(price) == price - PriceStep

\* sell_price += 0.01
raise(price) == price + PriceStep

\* round(sell_price, 2), in paise; a candidate halfway between two paise
\* goes to either, as the float that stands for it lies on either side
round_price(price) ==
    LET down == price \div Centipaise
        rest == price % Centipaise
    IN  IF 2 * rest < Centipaise THEN {down}
        ELSE IF 2 * rest > Centipaise THEN {down + 1}
        ELSE {down, down + 1}

InitSearch ==
    /\ pc = "search"
    /\ quantity \in SearchQuantities
    /\ buy_price \in SearchBuyPrices
    /\ min_profit_percent \in SearchMinPercents
    /\ trade_type \in TradeTypes
    /\ exchange \in Exchanges
    /\ sell_price = first_estimate(buy_price)
    /\ iterations = 0
    /\ minimum_price = None
    /\ include_dp_charges = FALSE
    /\ charges = NoResult
    /\ NotFeeOrSearchIdle

\* one pass of the for loop that does not break
SearchStep ==
    /\ pc = "search"
    /\ iterations < MaxIterations
    /\ \E r \in evaluate(quantity, buy_price, sell_price, min_profit_percent,
                         trade_type, exchange) :
          /\ r # ZeroDivisionError
          /\ \/ /\ r.is_profitable
                /\ too_much_profit(r.profit_percent, min_profit_percent)
                /\ sell_price' = lower(sell_price)
             \/ /\ ~r.is_profitable
                /\ sell_price' = raise(sell_price)
    /\ iterations' = iterations + 1
    /\ UNCHANGED <<pc, quantity, buy_price, min_profit_percent, trade_type,
                   exchange, include_dp_charges, charges, minimum_price,
                   notFeeOrSearch>>

\* the pass that breaks, and the return that follows it
SearchBreak ==
    /\ pc = "search"
    /\ iterations < MaxIterations
    /\ \E r \in evaluate(quantity, buy_price, sell_price, min_profit_percent,
                         trade_type, exchange) :
          /\ r # ZeroDivisionError
          /\ r.is_profitable
          /\ ~too_much_profit(r.profit_percent, min_profit_percent)
    /\ iterations' = iterations + 1
    /\ minimum_price' \in round_price(sell_price)
    /\ pc' = "returned"
    /\ UNCHANGED <<quantity, buy_price, sell_price, min_profit_percent,
                   trade_type, exchange, include_dp_charges, charges,
                   notFeeOrSearch>>

\* the loop runs out of passes, and the return that follows it
SearchExhausted ==
    /\ pc = "search"
    /\ iterations = MaxIterations
    /\ minimum_price' \in round_price(sell_price)
    /\ pc' = "returned"
    /\ UNCHANGED <<quantity, buy_price, sell_price, min_profit_percent,
                   trade_type, exchange, include_dp_charges, charges,
                   iterations, notFeeOrSearch>>

\* is_trade_profitable raises, and the exception leaves the call
SearchRaise ==
    /\ pc = "search"
    /\ iterations < MaxIterations
    /\ ZeroDivisionError \in evaluate(quantity, buy_price, sell_price,
                                      min_profit_percent, trade_type, exchange)
    /\ iterations' = iterations + 1
    /\ pc' = "raised"
    /\ UNCHANGED <<quantity, buy_price, sell_price, min_profit_percent,
                   trade_type, exchange, include_dp_charges, charges,
                   minimum_price, notFeeOrSearch>>

NextSearch == SearchStep \/ SearchBreak \/ SearchExhausted \/ SearchRaise

SpecSearch == InitSearch /\ [][NextSearch]_vars

\* The call runs on the thread that made it until it returns or raises:
\* weak fairness of NextSearch, which is enabled exactly while pc = "search"
\* (SearchCanStep), written with that state predicate for its ENABLED.
SearchFairness == []<>(pc # "search") \/ []<><<NextSearch>>_vars

SpecSearchFair == InitSearch /\ [][NextSearch]_vars /\ SearchFairness

\* inside the loop there is a pass to run or the loop has run out
SearchCanStep ==
    pc = "search" =>
        \/ iterations = MaxIterations
        \/ evaluate(quantity, buy_price, sell_price, min_profit_percent,
                    trade_type, exchange) # {}

\* how far a price in hundredths of a paisa is from buy_price * 1.01
distance(price) ==
    IF price >= first_estimate(buy_price) THEN price - first_estimate(buy_price)
    ELSE first_estimate(buy_price) - price

\* C24: as claimed: at most 100 evaluations, and the returned price differs
\* from buy_price * 1.01 by at most 1.00
C24_WithinOneRupee ==
    /\ iterations <= MaxIterations
    /\ pc = "returned" =>
          distance(minimum_price * Centipaise) <= MaxIterations * PriceStep

\* at most 100 evaluations; the candidate is a whole number of 0.01 steps,
\* at most one for each evaluation, from buy_price * 1.01; the price returned
\* is within half a step of the candidate
BoundedSearch ==
    /\ iterations <= MaxIterations
    /\ distance(sell_price) % PriceStep = 0
    /\ distance(sell_price) <= iterations * PriceStep
    /\ pc = "returned" =>
          /\ 2 * (minimum_price * Centipaise - sell_price) <= PriceStep
          /\ 2 * (sell_price - minimum_price * Centipaise) <= PriceStep
          /\ 2 * distance(minimum_price * Centipaise)
                <= (2 * MaxIterations + 1) * PriceStep

\* an evaluation stops the search, or lowers or raises the candidate by 0.01
OneStep ==
    iterations' = iterations + 1 =>
        \/ pc' # "search" /\ sell_price' = sell_price
        \/ pc' = "search" /\ sell_price' = sell_price - PriceStep
        \/ pc' = "search" /\ sell_price' = sell_price + PriceStep

\* C24, amended: the call ends after at most 100 evaluations, each of which
\* stops the search or moves the candidate by exactly 0.01 from buy_price *
\* 1.01, so the candidate stays within 1.00 of it, and the price returned,
\* the candidate rounded to 2 decimals, within 1.005
C24_BoundedSearch ==
    /\ []BoundedSearch
    /\ []SearchCanStep
    /\ [][OneStep]_vars
    /\ <>(pc \in {"returned", "raised"})

C24_Witness ==
    /\ pc = "returned"
    /\ iterations = MaxIterations
    /\ distance(minimum_price * Centipaise) > MaxIterations * PriceStep

\* C25: for a positive quantity and buy price, the price returned is a
\* selling price of a profitable trade: is_trade_profitable of the same
\* arguments and the returned price says profitable
C25_ReturnedPriceProfitable ==
    (pc = "returned" /\ quantity > 0 /\ buy_price > 0) =>
        \A r \in evaluate(quantity, buy_price, minimum_price * Centipaise,
                          min_profit_percent, trade_type, exchange) :
            r.is_profitable

----------------------------------------------------------------------------
(* StatisticalArbitrageEngine(): construction under a configuration, then  *)
(* the calls a caller makes on the engine                                  *)

ROLLING_WINDOW == 20

\* the values config.py may be edited to hold: a negative one, 0, the default
RollingWindows == {-1, 0, ROLLING_WINDOW}
EntryThresholds == {-Z_SCORE_ENTRY, 0, Z_SCORE_ENTRY}
ExitThresholds == {-Z_SCORE_EXIT, 0, Z_SCORE_EXIT}
StopLossThresholds == {-STOP_LOSS_MULTIPLIER, 0, STOP_LOSS_MULTIPLIER}

\* class TradingConfig, the attributes the strategy reads
TradingConfig ==
    [ROLLING_WINDOW : RollingWindows,
     Z_SCORE_ENTRY : EntryThresholds,
     Z_SCORE_EXIT : ExitThresholds,
     STOP_LOSS_MULTIPLIER : StopLossThresholds]

\* a positive rolling window and positive thresholds
valid_configuration(config) ==
    /\ config.ROLLING_WINDOW > 0
    /\ config.Z_SCORE_ENTRY > 0
    /\ config.Z_SCORE_EXIT > 0
    /\ config.STOP_LOSS_MULTIPLIER > 0

InitStartup ==
    /\ pc = "startup"
    /\ trading_config \in TradingConfig
    /\ operations_run = {}
    /\ NumericalIdle /\ DashboardIdle

\* __init__ stores the configuration objects, the fee calculator and the
\* logger; it reads no attribute of the configuration
EngineInit ==
    /\ pc = "startup"
    /\ pc' = "constructed"
    /\ UNCHANGED <<trading_config, operations_run, numericalVars, dashboardVars>>

\* screen_all_pairs on the constructed engine
ScreenAllPairs ==
    /\ pc = "constructed"
    /\ operations_run' = operations_run \cup {"screen_all_pairs"}
    /\ UNCHANGED <<pc, trading_config, numericalVars, dashboardVars>>

\* generate_trading_signals on the constructed engine
GenerateTradingSignals ==
    /\ pc = "constructed"
    /\ operations_run' = operations_run \cup {"generate_trading_signals"}
    /\ UNCHANGED <<pc, trading_config, numericalVars, dashboardVars>>

NextStartup == EngineInit \/ ScreenAllPairs \/ GenerateTradingSignals

SpecStartup == InitStartup /\ [][NextStartup]_vars

\* C21: a configuration with a non-positive rolling window or a non-positive
\* z-score or stop-loss threshold is rejected when the engine is
\* initialised: no engine is constructed from it and neither screening nor
\* signal generation runs with it
C21_FailFast ==
    ~valid_configuration(trading_config) =>
        /\ pc # "constructed"
        /\ operations_run = {}

----------------------------------------------------------------------------
(* StatisticalArbitrageDashboard: the GUI thread, the screening thread and *)
(* the monitoring_worker threads                                           *)
(*                                                                         *)
(* The handlers of the GUI thread run one at a time.  The worker threads   *)
(* share self.viable_pairs and self.is_monitoring with it without a lock;  *)
(* a step of a worker is the code between two reads or writes of shared    *)
(* state that another thread can tell apart.  `for i, pair in              *)
(* enumerate(self.viable_pairs)` reads the attribute once: the loop keeps  *)
(* the list object it started with, while self.viable_pairs[i] = ... reads *)
(* the attribute again and writes into the list it refers to then.         *)

MaxLogged == 1                 \* messages log_queue holds before it is drained
DATA_REFRESH_MINUTES == 5
ERROR_BACKOFF_SECONDS == 60    \* time.sleep(60)

\* the monitoring threads that can be alive together
Workers == {1, 2}
\* the pairs of DEFAULT_PAIRS the dashboard screens, in their order
MonitoredPairs == <<1, 2>>

\* what analyze_pair can return for a pair; its except clause lets no
\* exception through
DashboardOutcomes ==
    {[kind |-> "failed"], [kind |-> "rejected"]}
        \cup {[kind |-> "viable", p_value |-> p] : p \in {10, 30}}

\* A thread that has not been started, or has left monitoring_worker.
\* Inside the for loop, index is the number of items the loop has taken,
\* pair the one it is analysing, shared whether the list it iterates is
\* still the one self.viable_pairs refers to and, if it is not, rest the
\* pairs of the items the loop has not taken yet.
NoWorker ==
    [pc |-> "dead", shared |-> TRUE, rest |-> <<>>, index |-> 0, pair |-> 0]

\* a thread that threading.Thread(...).start() has just started
StartedWorker == [NoWorker EXCEPT !.pc = "while"]

\* is the thread inside monitoring_worker
alive(worker) == worker.pc # "dead"

\* has the for loop of a worker another item to take
has_next(worker) ==
    IF worker.shared THEN worker.index < Len(dashboard_viable_pairs)
    ELSE worker.rest # <<>>

\* the pair of the item the for loop takes next
next_item(worker) ==
    IF worker.shared THEN dashboard_viable_pairs[worker.index + 1].pair
    ELSE Head(worker.rest)

\* the seconds a sleeping thread sleeps
sleep_seconds(worker) ==
    IF worker.pc = "sleep" THEN DATA_REFRESH_MINUTES * 60
    ELSE IF worker.pc = "error_sleep" THEN ERROR_BACKOFF_SECONDS
    ELSE 0

\* screen_all_pairs under the outcomes of its analyses: the viable analyses
\* of pairs 1..n, collected in order
RECURSIVE collect_viable(_, _)
collect_viable(outcomes, n) ==
    IF n = 0 THEN <<>>
    ELSE screen_pair(collect_viable(outcomes, n - 1), n, outcomes[n]).viable_pairs

screen_all_pairs(outcomes) ==
    sort_viable_pairs(collect_viable(outcomes, Len(outcomes)))

\* the for loop leaves its list when the attribute is given another one
detach(worker, old) ==
    IF worker.pc \in {"for", "analyzing"} /\ worker.shared
    THEN [worker EXCEPT
            !.shared = FALSE,
            !.rest = [n \in 1..(Len(old) - worker.index) |->
                         old[worker.index + n].pair]]
    ELSE worker

\* `if not self.is_monitoring: break`, left out
loop_break_Never(monitoring) == FALSE

\* `if not self.is_monitoring: break`
loop_break(monitoring) == ~monitoring

\* the for loop is left: root.after(...) twice, then
\* time.sleep(DATA_REFRESH_MINUTES * 60)
after_for(worker) == [NoWorker EXCEPT !.pc = "sleep"]

\* an except clause that gives up: the thread leaves monitoring_worker
after_error_Exit(worker) == NoWorker

\* the except clause, after log_queue.put: time.sleep(60)
after_error(worker) == [NoWorker EXCEPT !.pc = "error_sleep"]

\* what the dashboard's threads leave alone
notDashboard == <<pc, numericalVars, startupVars>>

InitDashboard ==
    /\ pc = "mainloop"
    /\ dashboard_viable_pairs = <<>>
    /\ is_monitoring = FALSE
    /\ screening_thread = FALSE
    /\ workers = [w \in Workers |-> NoWorker]
    /\ log_queue = 0
    /\ display_pending = FALSE
    /\ NumericalIdle /\ StartupIdle

\* screen_pairs_threaded, when no screening thread is alive
ScreenPairsThreaded ==
    /\ ~screening_thread
    /\ screening_thread' = TRUE
    /\ UNCHANGED <<dashboard_viable_pairs, is_monitoring, workers, log_queue,
                   display_pending, notDashboard>>

\* screen_pairs_worker: the attribute is given the list screen_all_pairs
\* returns, and the display is scheduled
ScreenPairsWorker ==
    /\ screening_thread
    /\ \E outcomes \in [DOMAIN MonitoredPairs -> DashboardOutcomes] :
          dashboard_viable_pairs' = screen_all_pairs(outcomes)
    /\ workers' = [w \in Workers |-> detach(workers[w], dashboard_viable_pairs)]
    /\ display_pending' = TRUE
    /\ screening_thread' = FALSE
    /\ UNCHANGED <<is_monitoring, log_queue, notDashboard>>

\* toggle_monitoring while not monitoring: start_monitoring, with pairs.
\* self.monitoring_thread, which nothing reads, is left out.
StartMonitoring ==
    /\ ~is_monitoring
    /\ dashboard_viable_pairs # <<>>
    /\ \E w \in Workers :
          /\ ~alive(workers[w])
          /\ \A v \in Workers : v < w => alive(workers[v])
          /\ workers' = [workers EXCEPT ![w] = StartedWorker]
    /\ is_monitoring' = TRUE
    /\ UNCHANGED <<dashboard_viable_pairs, screening_thread, log_queue,
                   display_pending, notDashboard>>

\* toggle_monitoring while monitoring: stop_monitoring
StopMonitoring ==
    /\ is_monitoring
    /\ is_monitoring' = FALSE
    /\ UNCHANGED <<dashboard_viable_pairs, screening_thread, workers,
                   log_queue, display_pending, notDashboard>>

\* `while self.is_monitoring:` and, inside, the start of the for loop
LoopHead(w) ==
    /\ workers[w].pc = "while"
    /\ workers' = [workers EXCEPT ![w] =
          IF is_monitoring THEN [NoWorker EXCEPT !.pc = "for"] ELSE NoWorker]
    /\ UNCHANGED <<dashboard_viable_pairs, is_monitoring, screening_thread,
                   log_queue, display_pending, notDashboard>>

\* the for loop takes its next pair and goes on to analyse it
ForNext(w) ==
    /\ workers[w].pc = "for"
    /\ has_next(workers[w])
    /\ ~loop_break(is_monitoring)
    /\ workers' = [workers EXCEPT ![w] =
          [@ EXCEPT !.pc = "analyzing", !.index = @ + 1,
                    !.pair = next_item(workers[w]),
                    !.rest = IF @ = <<>> THEN <<>> ELSE Tail(@)]]
    /\ UNCHANGED <<dashboard_viable_pairs, is_monitoring, screening_thread,
                   log_queue, display_pending, notDashboard>>

\* the for loop ends, by break or at the end of its list: the display is
\* scheduled and the thread sleeps
ForEnd(w) ==
    /\ workers[w].pc = "for"
    /\ \/ ~has_next(workers[w])
       \/ loop_break(is_monitoring)
    /\ workers' = [workers EXCEPT ![w] = after_for(@)]
    /\ display_pending' = TRUE
    /\ UNCHANGED <<dashboard_viable_pairs, is_monitoring, screening_thread,
                   log_queue, notDashboard>>

\* analyze_pair returns an analysis that says cointegrated, and
\* self.viable_pairs[i] = updated_analysis stores it
StoreAnalysis(w) ==
    /\ workers[w].pc = "analyzing"
    /\ workers[w].index <= Len(dashboard_viable_pairs)
    /\ \E o \in DashboardOutcomes :
          /\ get(analyze_pair(workers[w].pair, o), "cointegrated", FALSE)
          /\ dashboard_viable_pairs' =
                [dashboard_viable_pairs EXCEPT ![workers[w].index] =
                    analyze_pair(workers[w].pair, o)]
    /\ workers' = [workers EXCEPT ![w].pc = "for", ![w].pair = 0]
    /\ UNCHANGED <<is_monitoring, screening_thread, log_queue,
                   display_pending, notDashboard>>

\* analyze_pair returns an analysis that does not say cointegrated: the
\* entry is left as it is
SkipAnalysis(w) ==
    /\ workers[w].pc = "analyzing"
    /\ \E o \in DashboardOutcomes :
          ~get(analyze_pair(workers[w].pair, o), "cointegrated", FALSE)
    /\ workers' = [workers EXCEPT ![w].pc = "for", ![w].pair = 0]
    /\ UNCHANGED <<dashboard_viable_pairs, is_monitoring, screening_thread,
                   log_queue, display_pending, notDashboard>>

\* self.viable_pairs[i] = updated_analysis raises IndexError, the list the
\* attribute refers to now being shorter; the except clause puts the message
\* into log_queue and the thread sleeps
RaiseIndexError(w) ==
    /\ workers[w].pc = "analyzing"
    /\ workers[w].index > Len(dashboard_viable_pairs)
    /\ \E o \in DashboardOutcomes :
          get(analyze_pair(workers[w].pair, o), "cointegrated", FALSE)
    /\ log_queue < MaxLogged
    /\ log_queue' = log_queue + 1
    /\ workers' = [workers EXCEPT ![w] = after_error(@)]
    /\ UNCHANGED <<dashboard_viable_pairs, is_monitoring, screening_thread,
                   display_pending, notDashboard>>

\* time.sleep returns
Wake(w) ==
    /\ workers[w].pc \in {"sleep", "error_sleep"}
    /\ workers' = [workers EXCEPT ![w] = StartedWorker]
    /\ UNCHANGED <<dashboard_viable_pairs, is_monitoring, screening_thread,
                   log_queue, display_pending, notDashboard>>

\* update_pairs_display and check_for_signals, run by the GUI thread
UpdatePairsDisplay ==
    /\ display_pending
    /\ display_pending' = FALSE
    /\ UNCHANGED <<dashboard_viable_pairs, is_monitoring, screening_thread,
                   workers, log_queue, notDashboard>>

\* update_log_display, run by the GUI thread every second: the queue is
\* emptied into the log widget
UpdateLogDisplay ==
    /\ log_queue > 0
    /\ log_queue' = 0
    /\ UNCHANGED <<dashboard_viable_pairs, is_monitoring, screening_thread,
                   workers, display_pending, notDashboard>>

MonitoringWorker(w) ==
    \/ LoopHead(w)
    \/ ForNext(w)
    \/ ForEnd(w)
    \/ StoreAnalysis(w)
    \/ SkipAnalysis(w)
    \/ RaiseIndexError(w)
    \/ Wake(w)

NextDashboard ==
    \/ ScreenPairsThreaded
    \/ ScreenPairsWorker
    \/ StartMonitoring
    \/ StopMonitoring
    \/ \E w \in Workers : MonitoringWorker(w)
    \/ UpdatePairsDisplay
    \/ UpdateLogDisplay

SpecDashboard == InitDashboard /\ [][NextDashboard]_vars

\* a thread inside monitoring_worker always has a step to take
WorkerCanStep ==
    \A w \in Workers : alive(workers[w]) <=> ENABLED <<MonitoringWorker(w)>>_vars

\* A monitoring thread is scheduled and its sleeps end: weak fairness of
\* MonitoringWorker(w), which is enabled exactly while the thread is alive
\* (WorkerCanStep), written with that state predicate for its ENABLED.
\* Nothing is assumed of the other threads, nor of what the user clicks.
DashboardFairness ==
    \A w \in Workers :
        []<>(~alive(workers[w])) \/ []<><<MonitoringWorker(w)>>_vars

SpecDashboardFair ==
    InitDashboard /\ [][NextDashboard]_vars /\ DashboardFairness

\* the threads that are inside monitoring_worker
Running == {w \in Workers : alive(workers[w])}

\* C29: at most one monitoring worker is running its loop at any time,
\* whatever the sequence of toggle_monitoring operations
C29_SingleWorker == Cardinality(Running) <= 1

\* a store by worker w replaces an entry that is there and is an analysis of
\* the pair w analysed, in a pass of its loop during which the screening
\* thread has not written self.viable_pairs
StoreInOwnSlot(w) ==
    /\ workers[w].index <= Len(dashboard_viable_pairs)
    /\ dashboard_viable_pairs[workers[w].index].pair = workers[w].pair
    /\ workers[w].shared

\* C28: whenever monitoring_worker stores a refreshed analysis into
\* viable_pairs[i], index i exists and the entry replaced is an analysis of
\* the same pair, under every interleaving with the screening thread, and
\* the two threads never both write the list during the same cycle
C28_SingleWriterPerSlot ==
    [][\A w \in Workers : StoreAnalysis(w) => StoreInOwnSlot(w)]_vars

\* the entries are in the order of non-decreasing p-value
Ranked(l) ==
    \A m, n \in DOMAIN l :
        m < n =>
            l[m].cointegration_details.p_value
                <= l[n].cointegration_details.p_value

\* the pairs that have an entry in the list
Listed(l) == {l[n].pair : n \in DOMAIN l}

\* C30: after every monitoring iteration, and whenever it is displayed, the
\* list is ordered by non-decreasing p-value, and no entry is of a pair
\* whose most recent analysis said not cointegrated
C30_StaysRanked ==
    [][/\ \A w \in Workers :
            /\ ForEnd(w) => Ranked(dashboard_viable_pairs)
            /\ SkipAnalysis(w) =>
                  workers[w].pair \notin Listed(dashboard_viable_pairs')
       /\ UpdatePairsDisplay => Ranked(dashboard_viable_pairs)]_vars

\* the except clause keeps the thread in monitoring_worker, puts its message
\* into log_queue and sleeps the back-off delay
ErrorHandled(w) ==
    RaiseIndexError(w) =>
        /\ alive(workers'[w])
        /\ log_queue' = log_queue + 1
        /\ sleep_seconds(workers'[w]) = ERROR_BACKOFF_SECONDS

\* the sleep of the except clause ends at the top of the loop
BackAtLoopHead(w) ==
    (workers[w].pc = "error_sleep" /\ workers'[w].pc # "error_sleep") =>
        workers'[w].pc = "while"

\* at the top of the loop, with monitoring enabled, another iteration starts
Restarts(w) ==
    (LoopHead(w) /\ is_monitoring) => workers'[w].pc = "for"

\* C22: when an iteration of monitoring_worker raises, the worker does not
\* terminate: it records the error and waits the 60 s back-off, after which
\* it is back at the top of its loop, where it starts another iteration if
\* monitoring is still enabled
C22_LoopResilience ==
    /\ [][\A w \in Workers :
            ErrorHandled(w) /\ BackAtLoopHead(w) /\ Restarts(w)]_vars
    /\ \A w \in Workers : []<>(workers[w].pc # "error_sleep")
    /\ []WorkerCanStep

C22_Witness ==
    \E w \in Workers :
        /\ workers[w].pc = "error_sleep"
        /\ log_queue > 0
        /\ is_monitoring

\* C23: once stop_monitoring has cleared the flag and monitoring is not
\* started again, a worker begins no further re-analysis, the one in
\* progress apart, and in the end every worker has left its loop
C23_CooperativeCancellation ==
    /\ [][\A w \in Workers : ForNext(w) => is_monitoring]_vars
    /\ <>[](~is_monitoring) => <>[](Running = {})
    /\ []WorkerCanStep

\* monitoring was stopped during the analysis of a pair that is not the last
C23_Witness ==
    /\ ~is_monitoring
    /\ \E w \in Workers :
          workers[w].pc = "analyzing" /\ has_next(workers[w])

====
